---- MODULE Spec2Model ----
(***************************************************************************)
(* cloudwatch-alarm-notifier-lambda: the SNS -> Slack alarm notifier of     *)
(* src/main.go as a state machine.                                          *)
(*                                                                          *)
(* The process is started once (init), then the Lambda runtime calls        *)
(* HandleRequest once per batch of SNS records, one invocation at a time.   *)
(* HandleRequest decodes each record into a CloudWatchAlarmEvent, builds    *)
(* one slack.Attachment per record, then posts the attachments to Slack in  *)
(* chunks of slackAttachmentsChunkSize, logging each outcome.               *)
(***************************************************************************)
EXTENDS Naturals, Sequences, FiniteSets, TLC

VARIABLES
    env,                        \* the process environment (os.Getenv reads it)
    now,                        \* the wall clock, in seconds (time.Now)
    slackClient,                \* package variable, main.go:40
    slackAttachmentsChunkSize,  \* package variable, main.go:41
    slackMonitorChannel,        \* package variable, main.go:42
    pc,                         \* where the process is: start, idle, build, send, ret
    event,                      \* HandleRequest's argument: the records of the batch
    idx,                        \* records consumed by the range loop of main.go:93
    cloudWatchAlarmEvent,       \* the loop's local of main.go:94, as last decoded
    slackAttachments,           \* HandleRequest's local of main.go:91
    i,                          \* the chunk loop's index, main.go:150
    sends,                      \* the Send calls of the current invocation, in order
    logs,                       \* the log lines of the current invocation, in order
    result,                     \* what the last return handed to the runtime
    invocations,                \* invocations completed
    envChanges,                 \* environment changes so far
    startupEnv,                 \* history: the environment init() saw
    failedEarlier               \* history: some Send of an earlier invocation failed

vars == <<env, now, slackClient, slackAttachmentsChunkSize, slackMonitorChannel,
          pc, event, idx, cloudWatchAlarmEvent, slackAttachments, i, sends,
          logs, result, invocations, envChanges, startupEnv, failedEarlier>>

-----------------------------------------------------------------------------
(* Bounds of the exploration.                                               *)

\* Longest batch whose records are chosen freely.
MaxSmall == 2

\* Long batches have up to MaxChunks * 100 + 50 records.
MaxChunks == 2

\* Invocations served by one instance.
MaxInvocations == 2

\* Changes of the process environment after start.
MaxEnvChanges == 1

\* Ticks of the clock.
MaxClock == 1

-----------------------------------------------------------------------------
(* JSON documents.  A message body is text; what json.Decoder makes of it   *)
(* depends on the first JSON value of the text and on nothing after it.     *)

JString(s) == [t |-> "string", s |-> s, n |-> 0]

JNumber(n) == [t |-> "number", s |-> "", n |-> n]

JAbsent == [t |-> "absent", s |-> "", n |-> 0]

\* The Trigger object of an alarm document.
TriggerDoc(period, evals, op, threshold) ==
    [Period |-> period, EvaluationPeriods |-> evals,
     ComparisonOperator |-> op, Threshold |-> threshold]

\* An alarm document: the JSON object of spec section 6.
AlarmDoc(name, account, state, reason, region, trigger) ==
    [AlarmName |-> name, AlarmDescription |-> JAbsent, AWSAccountId |-> account,
     NewStateValue |-> state, NewStateReason |-> reason,
     StateChangeTime |-> JAbsent, Region |-> region, OldStateValue |-> JAbsent,
     Trigger |-> trigger]

NoDoc == AlarmDoc(JAbsent, JAbsent, JAbsent, JAbsent, JAbsent,
                  TriggerDoc(JAbsent, JAbsent, JAbsent, JAbsent))

\* A message body.  lead: what the text starts with, "object" (a complete JSON
\* object, doc), "scalar" (a complete JSON value that is no object) or
\* "invalid" (no complete JSON value: a syntax error or a truncated text).
\* trailing: text that is not JSON follows the first value.
Body(lead, trailing, doc) == [lead |-> lead, trailing |-> trailing, doc |-> doc]

\* The text as a whole is a JSON document.
IsValidJSON(body) == body.lead # "invalid" /\ ~body.trailing

StdTrigger == TriggerDoc(JNumber(60), JNumber(3),
                         JString("GreaterThanThreshold"), JNumber(80))

DocOfState(state, reason) ==
    AlarmDoc(JString("cpu-high"), JString("123456789012"), JString(state),
             JString(reason), JString("us-east-1"), StdTrigger)

BodyAlarm == Body("object", FALSE, DocOfState("ALARM", "threshold crossed"))

BodyInsufficient == Body("object", FALSE, DocOfState("INSUFFICIENT_DATA", "no datapoints"))

BodyOK == Body("object", FALSE, DocOfState("OK", "back to normal"))

\* Different case and unrecognized values of NewStateValue.
BodyLower == Body("object", FALSE, DocOfState("alarm", "lower case"))

BodyUnknown == Body("object", FALSE, DocOfState("PENDING", "unrecognized"))

BodyEmptyState == Body("object", FALSE, DocOfState("", "empty state"))

\* An object with fields missing and fields of the wrong JSON type.
BodyPartial ==
    Body("object", FALSE,
         AlarmDoc(JAbsent, JNumber(7), JString("ALARM"), JAbsent, JString("eu-west-1"),
                  TriggerDoc(JString("sixty"), JNumber(1), JNumber(5), JAbsent)))

\* Not JSON at all, an empty text, a truncated object.
BodyGarbage == Body("invalid", FALSE, NoDoc)

\* A complete JSON value that is no object, such as 42 or "text".
BodyScalar == Body("scalar", FALSE, NoDoc)

\* A complete alarm object followed by text that is not JSON.
BodyTrailing == Body("object", TRUE, DocOfState("ALARM", "then garbage"))

\* A complete JSON value that is no object, followed by text that is not JSON.
BodyScalarTrailing == Body("scalar", TRUE, NoDoc)

Bodies == {BodyAlarm, BodyInsufficient, BodyOK, BodyLower, BodyUnknown,
           BodyEmptyState, BodyPartial, BodyGarbage, BodyScalar, BodyTrailing,
           BodyScalarTrailing}

-----------------------------------------------------------------------------
(* CloudWatchAlarmEvent and its decoding.                                   *)

ZeroTrigger == [Period |-> 0, EvaluationPeriods |-> 0, ComparisonOperator |-> "",
                Threshold |-> 0]

\* CloudWatchAlarmEvent{}: every field at its zero value.
ZeroEvent ==
    [AlarmName |-> "", AlarmDescription |-> "", AWSAccountID |-> "",
     NewStateValue |-> "", NewStateReason |-> "", StateChangeTime |-> "",
     Region |-> "", OldStateValue |-> "", Trigger |-> ZeroTrigger]

\* A string field: a JSON string sets it; a missing key or a value of another
\* type leaves it as it was.
StringField(old, j) == IF j.t = "string" THEN j.s ELSE old

\* A numeric field, likewise.
NumberField(old, j) == IF j.t = "number" THEN j.n ELSE old

DecodeTrigger(old, doc) ==
    [Period |-> NumberField(old.Period, doc.Period),
     EvaluationPeriods |-> NumberField(old.EvaluationPeriods, doc.EvaluationPeriods),
     ComparisonOperator |-> StringField(old.ComparisonOperator, doc.ComparisonOperator),
     Threshold |-> NumberField(old.Threshold, doc.Threshold)]

\* json.NewDecoder(strings.NewReader(body)).Decode(&target): the decoder reads
\* the first JSON value of the text and stops there.  No complete value, or a
\* value that is no object: target is left untouched (the error is dropped by
\* the caller).  An object: each key of the right type is stored.  Whatever
\* follows the first value is never read.
Decode(target, body) ==
    IF body.lead # "object" THEN target
    ELSE [AlarmName |-> StringField(target.AlarmName, body.doc.AlarmName),
          AlarmDescription |-> StringField(target.AlarmDescription, body.doc.AlarmDescription),
          AWSAccountID |-> StringField(target.AWSAccountID, body.doc.AWSAccountId),
          NewStateValue |-> StringField(target.NewStateValue, body.doc.NewStateValue),
          NewStateReason |-> StringField(target.NewStateReason, body.doc.NewStateReason),
          StateChangeTime |-> StringField(target.StateChangeTime, body.doc.StateChangeTime),
          Region |-> StringField(target.Region, body.doc.Region),
          OldStateValue |-> StringField(target.OldStateValue, body.doc.OldStateValue),
          Trigger |-> DecodeTrigger(target.Trigger, body.doc.Trigger)]

-----------------------------------------------------------------------------
(* Formatting.                                                              *)

Digit(d) == SubSeq("0123456789", d + 1, d + 1)

RECURSIVE Sprintf(_)
\* fmt.Sprintf("%v", n) of a non-negative whole number below 10^6 (an int, or
\* a float32 holding a whole number): its decimal digits.
Sprintf(n) == IF n < 10 THEN Digit(n) ELSE Sprintf(n \div 10) \o Digit(n % 10)

-----------------------------------------------------------------------------
(* Building one attachment.                                                 *)

FooterIconURL == "https://d1d05r7k0qlw4w.cloudfront.net/dist-cbe91c5a8477701757ff6752aae4c6f892018972/img/favicon.ico"

\* Mutant of ColorOf: the state is matched without regard to case.
ColorOfAnyCase(newStateValue) ==
    IF newStateValue \in {"ALARM", "alarm"} THEN "danger"
    ELSE IF newStateValue \in {"INSUFFICIENT_DATA", "insufficient_data"} THEN "warning"
    ELSE "good"

\* The severity colour, main.go:97-102.
ColorOf(newStateValue) ==
    IF newStateValue = "ALARM" THEN "danger"
    ELSE IF newStateValue = "INSUFFICIENT_DATA" THEN "warning"
    ELSE "good"

Field(title, value) == [Title |-> title, Value |-> value, Short |-> TRUE]

\* The six display fields, main.go:111-142.
AttachmentFields(ev) ==
    << Field("AccountID", ev.AWSAccountID),
       Field("Region", ev.Region),
       Field("Period", Sprintf(ev.Trigger.Period)),
       Field("Threshold", Sprintf(ev.Trigger.Threshold)),
       Field("Evaluated Periods", Sprintf(ev.Trigger.EvaluationPeriods)),
       Field("Comparison Operator", ev.Trigger.ComparisonOperator) >>

\* Mutant of FooterLabel: the label init() saw, as if captured in a package variable.
FooterLabelAtStartup == startupEnv.AWS_LAMBDA_FUNCTION_NAME

\* The footer label: os.Getenv at the time the attachment is built, main.go:108.
FooterLabel == env.AWS_LAMBDA_FUNCTION_NAME

\* slack.Attachment{...} of main.go:104-143.
Attachment(record, ev) ==
    [Color |-> ColorOf(ev.NewStateValue),
     Title |-> record.Subject,
     Text |-> ev.NewStateReason,
     Footer |-> FooterLabel,
     FooterIcon |-> FooterIconURL,
     Ts |-> now,
     AttachmentField |-> AttachmentFields(ev)]

-----------------------------------------------------------------------------
(* The environment and the batches the runtime may deliver.                 *)

EnvKeys == {"SLACK_WEBHOOK", "SLACK_MONITOR_CHANNEL", "AWS_LAMBDA_FUNCTION_NAME"}

\* The values each environment variable may take.
EnvValues(key) ==
    IF key = "SLACK_WEBHOOK" THEN {"https://hooks.slack.test/A", "https://hooks.slack.test/B"}
    ELSE IF key = "SLACK_MONITOR_CHANNEL" THEN {"#monitor", "#ops"}
    ELSE {"alarm-notifier", "alarm-notifier-v2"}

\* The environment the process is started in.
StartEnv ==
    [SLACK_WEBHOOK |-> "https://hooks.slack.test/A",
     SLACK_MONITOR_CHANNEL |-> "#monitor",
     AWS_LAMBDA_FUNCTION_NAME |-> "alarm-notifier"]

\* The subject line of the k-th record of a batch.
Subject(k) == "alarm-" \o Sprintf(k)

\* events.SNSEventRecord, as far as HandleRequest reads it.
Record(k, body) == [Subject |-> Subject(k), Message |-> body]

\* Batches of up to MaxSmall records with every choice of bodies among choice.
ShortBatches(choice) ==
    UNION { { [k \in 1..n |-> Record(k, f[k])] : f \in [1..n -> choice] } : n \in 0..MaxSmall }

SmallBatches == ShortBatches(Bodies)

\* The short batches an instance serving several invocations is given.
InstanceBatches == ShortBatches({BodyAlarm, BodyGarbage, BodyOK})

\* The bodies of a long batch repeat one of these patterns.
LongPatterns ==
    { <<BodyAlarm>>,
      <<BodyGarbage, BodyOK>>,
      <<BodyInsufficient, BodyTrailing, BodyPartial>> }

\* The lengths of long batches: around each multiple of Slack's limit of 100
\* attachments, and half a chunk beyond it.
LongLengths == { c * 100 + d - 1 : c \in 1..MaxChunks, d \in {0, 1, 2, 51} }

LongBatch(n, pat) == [k \in 1..n |-> Record(k, pat[((k - 1) % Len(pat)) + 1])]

LongBatches == { LongBatch(n, pat) : n \in LongLengths, pat \in LongPatterns }

Batches == SmallBatches \cup LongBatches

-----------------------------------------------------------------------------
(* The process.                                                             *)

\* No client yet: the zero value of the package variable.
NilClient == [webhook |-> "", timeout |-> 0]

Init ==
    /\ env = StartEnv
    /\ now = 0
    /\ slackClient = NilClient
    /\ slackAttachmentsChunkSize = 0
    /\ slackMonitorChannel = ""
    /\ pc = "start"
    /\ event = <<>>
    /\ idx = 0
    /\ cloudWatchAlarmEvent = ZeroEvent
    /\ slackAttachments = <<>>
    /\ i = 0
    /\ sends = <<>>
    /\ logs = <<>>
    /\ result = "none"
    /\ invocations = 0
    /\ envChanges = 0
    /\ startupEnv = StartEnv
    /\ failedEarlier = FALSE

\* slack.New(http.Client{Timeout: 10 * time.Second}, os.Getenv("SLACK_WEBHOOK"))
NewClient == [webhook |-> env.SLACK_WEBHOOK, timeout |-> 10]

\* init(), main.go:66-83: the package variables are set from the environment.
init ==
    /\ pc = "start"
    /\ slackClient' = NewClient
    /\ slackAttachmentsChunkSize' = 100
    /\ slackMonitorChannel' = env.SLACK_MONITOR_CHANNEL
    /\ startupEnv' = env
    /\ pc' = "idle"
    /\ UNCHANGED <<env, now, event, idx, cloudWatchAlarmEvent, slackAttachments, i,
                   sends, logs, result, invocations, envChanges, failedEarlier>>

\* Mutant of FreshAttachments: the list outlives the call, as a package variable would.
KeptAttachments == slackAttachments

\* slackAttachments := []slack.Attachment{}, main.go:91.
FreshAttachments == <<>>

\* The runtime calls HandleRequest with a batch, main.go:90-92.  The locals of
\* the previous call are gone; what the new call does not initialise is stale.
HandleRequest(batches) ==
    /\ pc = "idle"
    /\ invocations < MaxInvocations
    /\ \E ev \in batches : event' = ev
    /\ slackAttachments' = FreshAttachments
    /\ idx' = 0
    /\ sends' = <<>>
    /\ logs' = <<>>
    /\ result' = "none"
    /\ pc' = "build"
    /\ UNCHANGED <<env, now, slackClient, slackAttachmentsChunkSize, slackMonitorChannel,
                   cloudWatchAlarmEvent, i, invocations, envChanges, startupEnv,
                   failedEarlier>>

\* Mutant of DecodeRecord: one struct, declared outside the loop, is decoded into
\* for every record.
DecodeRecordReused(record) == Decode(cloudWatchAlarmEvent, record.Message)

\* cloudWatchAlarmEvent := CloudWatchAlarmEvent{}; ...Decode(&cloudWatchAlarmEvent),
\* main.go:94-95: a fresh struct per record, the decode error dropped.
DecodeRecord(record) == Decode(ZeroEvent, record.Message)

\* Mutant of AppendAttachment: a record that fails to decode is skipped.
AppendAttachmentIfDecoded(record, ev) ==
    IF record.Message.lead # "object"
    THEN slackAttachments
    ELSE Append(slackAttachments, Attachment(record, ev))

\* slackAttachments = append(slackAttachments, slackAttachment), main.go:144.
AppendAttachment(record, ev) == Append(slackAttachments, Attachment(record, ev))

\* One pass of the range loop, main.go:93-145.
RangeRecords ==
    /\ pc = "build"
    /\ idx < Len(event)
    /\ LET record == event[idx + 1]
           ev == DecodeRecord(record)
       IN  /\ cloudWatchAlarmEvent' = ev
           /\ slackAttachments' = AppendAttachment(record, ev)
    /\ idx' = idx + 1
    /\ UNCHANGED <<env, now, slackClient, slackAttachmentsChunkSize, slackMonitorChannel,
                   pc, event, i, sends, logs, result, invocations, envChanges,
                   startupEnv, failedEarlier>>

LogLine(level, msg) == [level |-> level, msg |-> msg]

\* Mutant of CheckAttachments: the chunk loop is entered without the emptiness test.
CheckAttachmentsNoTest ==
    /\ pc = "build"
    /\ idx = Len(event)
    /\ i' = 0
    /\ pc' = "send"
    /\ UNCHANGED <<env, now, slackClient, slackAttachmentsChunkSize, slackMonitorChannel,
                   event, idx, cloudWatchAlarmEvent, slackAttachments, sends, logs, result,
                   invocations, envChanges, startupEnv, failedEarlier>>

\* The range loop is over: if len(slackAttachments) != 0 { i := 0 ... } else
\* { Warning.Println("No Slack Sent") }, main.go:147-150 and 168-170.
CheckAttachments ==
    /\ pc = "build"
    /\ idx = Len(event)
    /\ IF Len(slackAttachments) # 0
       THEN /\ i' = 0
            /\ pc' = "send"
            /\ logs' = logs
       ELSE /\ i' = i
            /\ pc' = "ret"
            /\ logs' = Append(logs, LogLine("WARNING", "No Slack Sent"))
    /\ UNCHANGED <<env, now, slackClient, slackAttachmentsChunkSize, slackMonitorChannel,
                   event, idx, cloudWatchAlarmEvent, slackAttachments, sends, result,
                   invocations, envChanges, startupEnv, failedEarlier>>

\* Mutant of ChunkEnd: a full chunk ends one attachment early.
ChunkEndOneShort ==
    IF i + slackAttachmentsChunkSize > Len(slackAttachments)
    THEN Len(slackAttachments)
    ELSE i + slackAttachmentsChunkSize - 1

\* end := i + slackAttachmentsChunkSize, cut to len(slackAttachments), main.go:151-154.
ChunkEnd ==
    IF i + slackAttachmentsChunkSize > Len(slackAttachments)
    THEN Len(slackAttachments)
    ELSE i + slackAttachmentsChunkSize

\* Mutant of Payload: the channel is read from the environment at each Send.
PayloadLiveChannel ==
    [Channel |-> env.SLACK_MONITOR_CHANNEL,
     Attachments |-> SubSeq(slackAttachments, i + 1, ChunkEnd)]

\* slack.Payload{Channel: slackMonitorChannel, Attachments: slackAttachments[i:end]},
\* main.go:156-160.
Payload ==
    [Channel |-> slackMonitorChannel,
     Attachments |-> SubSeq(slackAttachments, i + 1, ChunkEnd)]

\* Mutant of NextChunkIndex: a failed Send ends the loop.
NextChunkIndexStopOnError(outcome) ==
    IF outcome = "err" THEN Len(slackAttachments) ELSE i + slackAttachmentsChunkSize

\* The chunk loop's index after a Send that returned outcome, main.go:150 and
\* 161-166: the loop goes on to the next chunk whatever the outcome.
NextChunkIndex(outcome) == i + slackAttachmentsChunkSize

\* The log line of a Send's outcome, main.go:162-166.
OutcomeLog(outcome) ==
    IF outcome = "err" THEN LogLine("ERROR", "send failed") ELSE LogLine("INFO", "response")

\* One pass of the chunk loop, main.go:150-167: the Send blocks until the
\* client returns a response or an error.
SendChunk ==
    /\ pc = "send"
    /\ i < Len(slackAttachments)
    /\ \E outcome \in {"ok", "err"} :
          /\ sends' = Append(sends, [client |-> slackClient, payload |-> Payload,
                                     outcome |-> outcome])
          /\ logs' = Append(logs, OutcomeLog(outcome))
          /\ i' = NextChunkIndex(outcome)
    /\ UNCHANGED <<env, now, slackClient, slackAttachmentsChunkSize, slackMonitorChannel,
                   pc, event, idx, cloudWatchAlarmEvent, slackAttachments, result,
                   invocations, envChanges, startupEnv, failedEarlier>>

\* The chunk loop is over, main.go:150.
ChunksDone ==
    /\ pc = "send"
    /\ i >= Len(slackAttachments)
    /\ pc' = "ret"
    /\ UNCHANGED <<env, now, slackClient, slackAttachmentsChunkSize, slackMonitorChannel,
                   event, idx, cloudWatchAlarmEvent, slackAttachments, i, sends, logs,
                   result, invocations, envChanges, startupEnv, failedEarlier>>

SomeSendFailed == \E k \in 1..Len(sends) : sends[k].outcome = "err"

\* Mutant of ReturnValue: a failed Send is reported to the runtime.
ReturnValueSendError == IF SomeSendFailed THEN "error" ELSE "nil"

\* What HandleRequest returns, main.go:171.
ReturnValue == "nil"

\* return nil, main.go:171.
Return ==
    /\ pc = "ret"
    /\ result' = ReturnValue
    /\ invocations' = invocations + 1
    /\ failedEarlier' = (failedEarlier \/ SomeSendFailed)
    /\ pc' = "idle"
    /\ UNCHANGED <<env, now, slackClient, slackAttachmentsChunkSize, slackMonitorChannel,
                   event, idx, cloudWatchAlarmEvent, slackAttachments, i, sends, logs,
                   envChanges, startupEnv>>

\* Something sets an environment variable of the running process.
EnvChange ==
    /\ pc # "start"
    /\ envChanges < MaxEnvChanges
    /\ \E key \in EnvKeys : \E value \in EnvValues(key) \ {env[key]} :
          env' = [env EXCEPT ![key] = value]
    /\ envChanges' = envChanges + 1
    /\ UNCHANGED <<now, slackClient, slackAttachmentsChunkSize, slackMonitorChannel, pc,
                   event, idx, cloudWatchAlarmEvent, slackAttachments, i, sends, logs,
                   result, invocations, startupEnv, failedEarlier>>

\* A second passes.
Tick ==
    /\ now < MaxClock
    /\ now' = now + 1
    /\ UNCHANGED <<env, slackClient, slackAttachmentsChunkSize, slackMonitorChannel, pc,
                   event, idx, cloudWatchAlarmEvent, slackAttachments, i, sends, logs,
                   result, invocations, envChanges, startupEnv, failedEarlier>>

\* A cold start that serves one invocation, on any batch, while the environment
\* and the clock stand still.
Next ==
    \/ init
    \/ (invocations = 0 /\ HandleRequest(Batches))
    \/ RangeRecords
    \/ CheckAttachments
    \/ SendChunk
    \/ ChunksDone
    \/ Return

Spec == Init /\ [][Next]_vars

\* An instance that serves several invocations on short batches, while the
\* environment and the clock move at any time.
NextInstance ==
    \/ init
    \/ HandleRequest(InstanceBatches)
    \/ RangeRecords
    \/ CheckAttachments
    \/ SendChunk
    \/ ChunksDone
    \/ Return
    \/ EnvChange
    \/ Tick

SpecInstance == Init /\ [][NextInstance]_vars

-----------------------------------------------------------------------------
(* Properties.                                                              *)

\* The attachments of the k-th Send of the current invocation.
Group(k) == sends[k].payload.Attachments

RECURSIVE GroupsUpTo(_)
\* The first k groups, concatenated in submission order.
GroupsUpTo(k) == IF k = 0 THEN <<>> ELSE GroupsUpTo(k - 1) \o Group(k)

Submitted == GroupsUpTo(Len(sends))

CeilDiv(n, c) == (n + c - 1) \div c

Least(a, b) == IF a < b THEN a ELSE b

\* The k-th slice of size c of the attachments.
Slice(k, c) ==
    SubSeq(slackAttachments, (k - 1) * c + 1, Least(k * c, Len(slackAttachments)))

Titles(group) == { group[k].Title : k \in 1..Len(group) }

Returned == pc = "idle" /\ invocations >= 1

WarningCount == Cardinality({ k \in 1..Len(logs) : logs[k].level = "WARNING" })

\* What the record's body decodes to from a fresh struct.
Decoded(record) == Decode(ZeroEvent, record.Message)

FieldValues(att) == [k \in 1..Len(att.AttachmentField) |-> att.AttachmentField[k].Value]

\* Every value taken from the alarm event is at its zero value.
IsDefault(att) ==
    /\ att.Color = "good"
    /\ att.Text = ""
    /\ FieldValues(att) = <<"", "", "0", "0", "0", "">>

\* The attachment carries what the record holds.
BuiltFrom(att, record) ==
    /\ att.Title = record.Subject
    /\ att.Text = Decoded(record).NewStateReason
    /\ att.AttachmentField = AttachmentFields(Decoded(record))

\* C1: once the chunk loop of a batch of N >= 1 fragments is over, the groups
\* sent partition the fragment sequence contiguously and in order: there are
\* ceil(N/100) groups, every group but the last holds 100 fragments, the last
\* holds the remaining 1..100, no fragment is in two groups, and the groups
\* concatenated in submission order are the fragment sequence.
C1_GroupsPartitionFragments ==
    (pc = "ret" /\ Len(slackAttachments) >= 1) =>
        LET n == Len(slackAttachments)
            g == Len(sends)
        IN  /\ g = CeilDiv(n, 100)
            /\ \A k \in 1..(g - 1) : Len(Group(k)) = 100
            /\ Len(Group(g)) = n - 100 * (g - 1)
            /\ Len(Group(g)) \in 1..100
            /\ \A k \in 1..g : Group(k) = Slice(k, 100)
            /\ \A k \in 1..g : \A m \in (k + 1)..g : Titles(Group(k)) \cap Titles(Group(m)) = {}
            /\ Submitted = slackAttachments

\* Spec section 8: 150 ALARM records go out as groups of 100 and 50, all danger.
C1_Witness ==
    /\ pc = "ret"
    /\ Len(slackAttachments) = 150
    /\ Len(sends) = 2
    /\ Len(Group(1)) = 100
    /\ Len(Group(2)) = 50
    /\ \A k \in 1..150 : slackAttachments[k].Color = "danger"

\* C2: whatever the Sends return, every group is attempted exactly once and in
\* fragment order: the Sends made so far are the first groups of the fragment
\* sequence, the loop stands at the group after them, and at its end no group
\* is missing.
C2_EveryGroupAttemptedOnce ==
    /\ pc \in {"send", "ret"} =>
          /\ \A k \in 1..Len(sends) : Group(k) = Slice(k, 100)
          /\ Len(sends) <= CeilDiv(Len(slackAttachments), 100)
    /\ pc = "send" => i = 100 * Len(sends)
    /\ pc = "ret" => Len(sends) = CeilDiv(Len(slackAttachments), 100)

\* The first of three Sends failed and the other two were still made.
C2_Witness ==
    /\ pc = "ret"
    /\ Len(sends) = 3
    /\ sends[1].outcome = "err"
    /\ sends[2].outcome = "err"
    /\ sends[3].outcome = "ok"

\* C3: HandleRequest returns nil to the runtime, whatever the batch and
\* whatever the Sends returned.
C3_AlwaysReturnsNil == Returned => result = "nil"

\* A batch with a body that does not decode, and a Send that failed, returned.
C3_Witness ==
    /\ Returned
    /\ SomeSendFailed
    /\ \E k \in 1..Len(event) : event[k].Message.lead = "invalid"

\* C4: an empty batch makes no Send and logs "No Slack Sent" exactly once; a
\* batch of at least one record never logs it and makes at least one Send.
C4_EmptyBatchWarnsOnly ==
    /\ Len(event) = 0 => sends = <<>>
    /\ Len(event) >= 1 => WarningCount = 0
    /\ WarningCount <= 1
    /\ (pc = "ret" \/ Returned) =>
          /\ Len(event) = 0 => WarningCount = 1
          /\ Len(event) >= 1 => Len(sends) >= 1

\* An empty batch was handled: no Send, one warning.
C4_Witness ==
    /\ pc = "ret"
    /\ Len(event) = 0
    /\ sends = <<>>
    /\ logs = <<LogLine("WARNING", "No Slack Sent")>>

\* C5: one fragment per record, in input order: while the records are read
\* there are as many fragments as records read, afterwards as many as records,
\* and the k-th fragment has the k-th record's subject as title and the k-th
\* body's reason and display fields, whether or not the body decodes.
C5_OneFragmentPerRecord ==
    /\ pc = "build" =>
          /\ Len(slackAttachments) = idx
          /\ idx >= 1 => BuiltFrom(slackAttachments[idx], event[idx])
    /\ pc \in {"send", "ret"} =>
          /\ Len(slackAttachments) = Len(event)
          /\ \A k \in 1..Len(event) : BuiltFrom(slackAttachments[k], event[k])

\* A batch whose first body does not decode and whose second does, both built.
C5_Witness ==
    /\ pc = "ret"
    /\ Len(event) = 2
    /\ event[1].Message.lead = "invalid"
    /\ event[2].Message = BodyAlarm
    /\ Len(slackAttachments) = 2
    /\ slackAttachments[2].Text = "threshold crossed"

\* C6: the colour is decided by exact match on the decoded new state: "ALARM"
\* is danger, "INSUFFICIENT_DATA" is warning, every other string is good.
C6_ColorByExactMatch ==
    pc \in {"send", "ret"} =>
        \A k \in 1..Len(slackAttachments) :
            LET state == Decoded(event[k]).NewStateValue
                color == slackAttachments[k].Color
            IN  /\ state = "ALARM" => color = "danger"
                /\ state = "INSUFFICIENT_DATA" => color = "warning"
                /\ state \notin {"ALARM", "INSUFFICIENT_DATA"} => color = "good"

\* A batch with the state in lower case (good) and INSUFFICIENT_DATA (warning).
C6_Witness ==
    /\ pc = "ret"
    /\ Len(event) = 2
    /\ event[1].Message = BodyLower
    /\ slackAttachments[1].Color = "good"
    /\ event[2].Message = BodyInsufficient
    /\ slackAttachments[2].Color = "warning"

\* Every record whose body is a JSON document has the fragment it has alone.
ValidRecordsUnaffected ==
    \A k \in 1..Len(slackAttachments) :
        IsValidJSON(event[k].Message) =>
            /\ BuiltFrom(slackAttachments[k], event[k])
            /\ slackAttachments[k].Color = ColorOf(Decoded(event[k]).NewStateValue)

\* C7 as stated: every record whose body is not valid JSON yields a fragment
\* with default values, and the well-formed records of the batch are unaffected.
C7_InvalidBodyGivesDefaults ==
    pc \in {"send", "ret"} =>
        /\ Len(slackAttachments) = Len(event)
        /\ \A k \in 1..Len(slackAttachments) :
              ~IsValidJSON(event[k].Message) => IsDefault(slackAttachments[k])
        /\ ValidRecordsUnaffected

\* C7 amended: a body that is not valid JSON yields a fragment with default
\* values unless it begins with a complete JSON object; then the text after the
\* object is ignored and the fragment is built from the object.  The
\* well-formed records of the batch are unaffected.
C7_InvalidBodyGivesDefaultsUnlessObjectFirst ==
    pc \in {"send", "ret"} =>
        /\ Len(slackAttachments) = Len(event)
        /\ \A k \in 1..Len(slackAttachments) :
              LET body == event[k].Message
              IN  ~IsValidJSON(body) =>
                     IF body.lead = "object"
                     THEN /\ slackAttachments[k].Text = StringField("", body.doc.NewStateReason)
                          /\ slackAttachments[k].Color =
                                ColorOf(StringField("", body.doc.NewStateValue))
                     ELSE IsDefault(slackAttachments[k])
        /\ ValidRecordsUnaffected

\* A body that is no JSON between two well-formed records, all three built.
C7_Witness ==
    /\ pc = "ret"
    /\ Len(event) >= 4
    /\ event[2].Message = BodyOK
    /\ event[3].Message = BodyGarbage
    /\ event[4].Message = BodyOK
    /\ IsDefault(slackAttachments[3])
    /\ slackAttachments[4].Text = "back to normal"

\* C8 as stated: every fragment carries the function name init() saw.
C8_FooterIsStartupLabel ==
    \A k \in 1..Len(slackAttachments) :
        slackAttachments[k].Footer = startupEnv.AWS_LAMBDA_FUNCTION_NAME

\* C8 amended: the function name is read from the environment each time a
\* fragment is built: a fragment carries the value the environment holds when
\* it is appended, and a change of the environment leaves the fragments built
\* before it as they are.
C8_FooterIsLabelAtBuildTime ==
    [][ /\ Len(slackAttachments') = Len(slackAttachments) + 1 =>
            slackAttachments'[Len(slackAttachments')].Footer = env.AWS_LAMBDA_FUNCTION_NAME
        /\ env' # env => slackAttachments' = slackAttachments ]_vars

\* The function name changed between two records of one batch.
C8_Witness ==
    /\ Len(slackAttachments) = 2
    /\ slackAttachments[1].Footer = startupEnv.AWS_LAMBDA_FUNCTION_NAME
    /\ slackAttachments[2].Footer # startupEnv.AWS_LAMBDA_FUNCTION_NAME

\* C9: the package variables are unset until init() and from then on hold what
\* init() gave them, whatever is invoked and whatever the Sends return; every
\* Send goes through the client and to the channel of startup, with at most
\* 100 attachments.
C9_ConfigurationFixedAtStartup ==
    /\ pc = "start" =>
          /\ invocations = 0
          /\ slackClient = NilClient
          /\ slackAttachmentsChunkSize = 0
          /\ slackMonitorChannel = ""
    /\ pc # "start" =>
          /\ slackClient = [webhook |-> startupEnv.SLACK_WEBHOOK, timeout |-> 10]
          /\ slackAttachmentsChunkSize = 100
          /\ slackMonitorChannel = startupEnv.SLACK_MONITOR_CHANNEL
          /\ \A k \in 1..Len(sends) :
                /\ sends[k].client.webhook = startupEnv.SLACK_WEBHOOK
                /\ sends[k].payload.Channel = startupEnv.SLACK_MONITOR_CHANNEL
                /\ Len(Group(k)) <= 100

\* A Send of a second invocation, after the channel variable changed.
C9_Witness ==
    /\ invocations >= 1
    /\ pc = "send"
    /\ Len(sends) >= 1
    /\ env.SLACK_MONITOR_CHANNEL # startupEnv.SLACK_MONITOR_CHANNEL
    /\ sends[1].payload.Channel = startupEnv.SLACK_MONITOR_CHANNEL

\* C10: what an invocation sends is built from its own batch alone: there are
\* never more fragments than records read, and the fragments sent are, in
\* order, those of the records of the current batch, whatever earlier
\* invocations were given and whatever their Sends returned.
C10_NothingCarriedOver ==
    /\ pc = "build" => Len(slackAttachments) = idx
    /\ pc \in {"send", "ret"} =>
          /\ Len(slackAttachments) = Len(event)
          /\ Len(Submitted) <= Len(event)
          /\ \A k \in 1..Len(Submitted) : BuiltFrom(Submitted[k], event[k])
    /\ pc = "ret" => Len(Submitted) = Len(event)

\* A later invocation sent its group after a Send of an earlier one failed.
C10_Witness ==
    /\ invocations >= 1
    /\ failedEarlier
    /\ pc = "ret"
    /\ Len(sends) = 1
    /\ Len(event) = 1
    /\ Len(Group(1)) = 1

====
